---- MODULE Spec2Model ----
(***************************************************************************)
(* dorthy.json: the recursive serializer dumps(), wrapped by the           *)
(* prevent_cycle decorator, as a state machine.  Each call of the wrapped  *)
(* function is a frame on an explicit call stack; the decorator's memo     *)
(* (one OrderedDict, created once when the module is imported) is the      *)
(* variable memo, shared by every top-level call.                          *)
(***************************************************************************)
EXTENDS Naturals, Sequences, FiniteSets, TLC

VARIABLES
    memo,      \* prevent_cycle's memo: sequence of [oid, name], keys unique, insertion order
    args,      \* per thread: the arguments of the top-level jsonify() call
    frames,    \* per thread: the active _prevent_cycle/dumps calls, outermost first
    exc,       \* per thread: the exception in flight (type "none" when there is none)
    status,    \* per thread: "idle", "running", "ok" or "failed"
    result,    \* per thread: the value the top-level dumps() returned
    fetched,   \* per thread (history): obj.__getattribute__(name) calls made, as [owner, name, path]
    descended, \* per thread (history): recursive dumps() calls made for a key or attribute
    returned,  \* per thread (history): guarded calls that returned, as [node, basename, out]
    prev       \* per thread (history): how the thread's previous top-level call ended

vars == <<memo, args, frames, exc, status, result, fetched, descended, returned, prev>>

\* ---------------------------------------------------------------- bounds

\* The interpreter's recursion limit: one more nested call raises RecursionError.
MaxDepth == 8
\* The largest blacklist (ignore_attributes) a call is given.
MaxIgnore == 1

Threads == {1, 2}

\* ---------------------------------------------------------------- the object graph

Item(name, to) == [name |-> name, to |-> to, get |-> "ok"]
\* An attribute whose getter raises AttributeError, and one whose value is a bound method.
BadItem(name) == [name |-> name, to |-> "none", get |-> "raise"]
MethodItem(name) == [name |-> name, to |-> "none", get |-> "method"]

NoTransients == [form |-> "none", str |-> "", names |-> {}]

\* A value: caps are the isinstance/hasattr tests it passes, hook is what its _json,
\* _as_dict or decoding does, s its text, items its elements, keys or dir() names in
\* iteration order, rels its mapper's relationships (mapped: sqlalchemy.inspect works).
Obj(caps, type, hook, s, items) ==
    [caps |-> caps, type |-> type, hook |-> hook, s |-> s, items |-> items,
     rels |-> {}, mapped |-> FALSE, transients |-> NoTransients]

Entity(type, items, mapped, rels, transients) ==
    [caps |-> {}, type |-> type, hook |-> "", s |-> "<" \o type \o " object>", items |-> items,
     rels |-> rels, mapped |-> mapped, transients |-> transients]

Nodes ==
    {"none", "one", "txt", "raw", "rawbad", "when", "jstr", "jcall", "jinv", "jraise",
     "both", "asd", "asdinv", "m1", "mcyc", "mdag", "leafm", "lcyc", "lnest", "ldag", "l1", "l2",
     "dad", "kids", "bobby", "judy", "sibs", "trudy", "opaque", "flaky", "loopy"}

Heap ==
    [n \in Nodes |->
       CASE n = "none"   -> Obj({"None"}, "NoneType", "", "", <<>>)
         [] n = "one"    -> Obj({"primitive"}, "int", "", "1", <<>>)
         [] n = "txt"    -> Obj({"primitive", "Iterable"}, "str", "", "Dad", <<>>)
         [] n = "raw"    -> Obj({"bytes", "Iterable"}, "bytes", "ok", "raw", <<>>)
         [] n = "rawbad" -> Obj({"bytes", "Iterable"}, "bytes", "undecodable", "", <<>>)
         [] n = "when"   -> Obj({"date"}, "datetime", "", "1978-10-04T14:50:00+00:00", <<>>)
         [] n = "jstr"   -> Obj({"_json"}, "ValidJSONStr", "str", "a string", <<>>)
         [] n = "jcall"  -> Obj({"_json"}, "ValidJSONFun", "callable", "a json function", <<>>)
         [] n = "jinv"   -> Obj({"_json"}, "InvalidJSON", "invalid", "", <<>>)
         [] n = "jraise" -> Obj({"_json"}, "Lazy", "raises", "", <<>>)
         [] n = "both"   -> Obj({"_json", "_as_dict"}, "Both", "str", "both", <<Item("", "m1")>>)
         [] n = "asd"    -> Obj({"_as_dict"}, "Row", "callable", "", <<Item("", "m1")>>)
         [] n = "asdinv" -> Obj({"_as_dict"}, "BadRow", "invalid", "", <<>>)
         [] n = "m1"     -> Obj({"Mapping", "Iterable"}, "dict", "", "",
                                <<Item("int_arg", "one"), Item("when", "when"), Item("raw", "raw")>>)
         [] n = "mcyc"   -> Obj({"Mapping", "Iterable"}, "dict", "", "",
                                <<Item("k", "one"), Item("self", "mcyc")>>)
         [] n = "mdag"   -> Obj({"Mapping", "Iterable"}, "dict", "", "",
                                <<Item("x", "leafm"), Item("y", "leafm")>>)
         [] n = "leafm"  -> Obj({"Mapping", "Iterable"}, "dict", "", "",
                                <<Item("k", "one"), Item("h", "txt")>>)
         [] n = "lcyc"   -> Obj({"Iterable"}, "list", "", "", <<Item("", "one"), Item("", "lcyc")>>)
         [] n = "lnest"  -> Obj({"Iterable"}, "list", "", "", <<Item("", "lcyc")>>)
         [] n = "ldag"   -> Obj({"Iterable"}, "list", "", "",
                                <<Item("", "l1"), Item("", "l2"), Item("", "none")>>)
         [] n = "l1"     -> Obj({"Iterable"}, "list", "", "", <<Item("", "txt")>>)
         [] n = "l2"     -> Obj({"Iterable"}, "list", "", "", <<Item("", "l1"), Item("", "asd")>>)
         [] n = "dad"    -> Entity("ParentEntity",
                                <<Item("_sa_instance_state", "one"), Item("children", "kids"),
                                  Item("metadata", "one"), Item("name", "txt")>>,
                                TRUE, {"children"}, NoTransients)
         [] n = "kids"   -> Obj({"Iterable"}, "list", "", "",
                                <<Item("", "bobby"), Item("", "judy"), Item("", "trudy")>>)
         [] n = "bobby"  -> Entity("ChildEntity",
                                <<Item("name", "txt"), Item("parent", "dad"), Item("siblings", "none")>>,
                                TRUE, {"parent", "siblings"}, NoTransients)
         [] n = "judy"   -> Entity("ChildEntity",
                                <<Item("name", "txt"), Item("parent", "dad"), Item("siblings", "sibs")>>,
                                TRUE, {"parent", "siblings"}, NoTransients)
         [] n = "sibs"   -> Obj({"Iterable"}, "list", "", "", <<Item("", "bobby")>>)
         [] n = "trudy"  -> Entity("ChildTransient",
                                <<Item("cousins", "none"), Item("name", "txt"), Item("parent", "dad")>>,
                                TRUE, {"parent"}, [form |-> "iter", str |-> "", names |-> {"parent", "cousins"}])
         [] n = "opaque" -> Entity("Opaque",
                                <<Item("__class__", "none"), BadItem("gone"), MethodItem("save"),
                                  Item("secret", "one")>>,
                                FALSE, {}, [form |-> "str", str |-> "secret", names |-> {}])
         [] n = "flaky"  -> Entity("Flaky", <<Item("a", "jraise"), Item("b", "one")>>,
                                FALSE, {}, NoTransients)
         [] n = "loopy"  -> Entity("Loopy", <<Item("a", "jraise"), Item("b", "loopy")>>,
                                FALSE, {}, NoTransients)]

\* The values a top-level call is given, and the basenames.
Roots ==
    {"dad", "trudy", "judy", "mdag", "ldag", "lcyc", "lnest", "mcyc", "asd", "both", "opaque",
     "flaky", "loopy", "jinv", "asdinv", "rawbad", "none"}
Basenames == {"", "r"}

\* The paths a blacklist or a relation whitelist names.
PolicyPaths ==
    {"children", "children.parent", "children.siblings", "parent", "x.k", "r.children"}
Blacklists == {B \in SUBSET PolicyPaths : Cardinality(B) <= MaxIgnore}
NoWhitelist == [given |-> FALSE, paths |-> {}]
Whitelist(W) == [given |-> TRUE, paths |-> W]
Whitelists ==
    {NoWhitelist, Whitelist({}), Whitelist({"children"}),
     Whitelist({"children", "children.siblings"}), Whitelist({"children", "children.parent"}),
     Whitelist({"parent"}), Whitelist({"r.children"})}

\* ---------------------------------------------------------------- helpers of dorthy.utils

\* camel_encode on the names the graph uses.
CamelEncode(name) ==
    CASE name = "int_arg" -> "intArg"
      [] name = "_sa_instance_state" -> "SaInstanceState"
      [] OTHER -> name

\* native_str on a text string.
NativeStr(s) == s

\* ---------------------------------------------------------------- the serialized tree

OutNull == [t |-> "null", s |-> "", kids |-> <<>>]
OutPrim(s) == [t |-> "prim", s |-> s, kids |-> <<>>]
OutStr(s) == [t |-> "str", s |-> s, kids |-> <<>>]
OutList(kids) == [t |-> "list", s |-> "", kids |-> kids]
OutDict(kids) == [t |-> "dict", s |-> "", kids |-> kids]

Keys(kids) == {kids[i].k : i \in 1..Len(kids)}

\* values[name] = v on a dict kept as its items in insertion order.
DictSet(kids, k, v) ==
    IF k \in Keys(kids)
    THEN [i \in 1..Len(kids) |-> IF kids[i].k = k THEN [k |-> k, v |-> v] ELSE kids[i]]
    ELSE Append(kids, [k |-> k, v |-> v])

\* ---------------------------------------------------------------- pure functions of json.py

AppendPath(basename, name) ==
    IF basename # "" THEN NativeStr(basename \o "." \o name) ELSE NativeStr(name)

\* name.startswith("_")
StartsWithUnderscore(name) == Len(name) > 0 /\ SubSeq(name, 1, 1) = "_"

GetTransients(n) ==
    LET tr == Heap[n].transients IN
    CASE tr.form = "str" -> {tr.str}
      [] tr.form \in {"iter", "callable"} -> tr.names
      [] OTHER -> {}

\* The transients dumps() uses: 'metadata' is added when sqlalchemy can inspect the object.
Transients(n) == GetTransients(n) \cup (IF Heap[n].mapped THEN {"metadata"} ELSE {})

\* relationships: mapper.relationships.keys(), or [] on NoInspectionAvailable.
Relationships(n) == IF Heap[n].mapped THEN Heap[n].rels ELSE {}

\* Mutant: the transients are not consulted.
IsVisibleIgnoringTransients(name, transients) == ~StartsWithUnderscore(name)

IsVisibleAttribute(name, transients) == ~(StartsWithUnderscore(name) \/ name \in transients)

IsPrefix(p, q) == Len(p) <= Len(q) /\ SubSeq(q, 1, Len(p)) = p

\* Mutant: without a whitelist every relation is hidden.
CheckWhitelistHiddenByDefault(collection, include) ==
    include.given /\ collection \in include.paths

\* Mutant: a whitelisted path also admits the paths beneath it.
CheckWhitelistPrefix(collection, include) ==
    ~include.given \/ \E w \in include.paths : IsPrefix(w, collection)

CheckWhitelist(collection, include) == ~include.given \/ collection \in include.paths

IsSuffix(p, q) == Len(p) <= Len(q) /\ SubSeq(q, Len(q) - Len(p) + 1, Len(q)) = p

\* Mutant: a blacklisted name hides every path that ends with it.
IsBlacklistedSuffix(attribute, ignore) == \E b \in ignore : IsSuffix(b, attribute)

\* ignore_attributes None and () are both the empty set here: neither holds a path.
IsBlacklistedAttribute(attribute, ignore) == attribute \in ignore

IsVisibleType(item) == item.get # "method"

\* The branch of dumps()' if-chain a value takes: the first test that matches.
Classify(n) ==
    LET c == Heap[n].caps IN
    CASE "None" \in c -> "null"
      [] "primitive" \in c -> "primitive"
      [] "bytes" \in c -> "bytes"
      [] "_json" \in c -> "_json"
      [] "_as_dict" \in c -> "_as_dict"
      [] "date" \in c -> "date"
      [] "Mapping" \in c -> "mapping"
      [] "Iterable" \in c -> "iterable"
      [] OTHER -> "object"

\* "{}".format(type(obj))
TypeName(n) == "<class '" \o Heap[n].type \o "'>"

\* ---------------------------------------------------------------- prevent_cycle

MemoKeys(m) == {m[i].oid : i \in 1..Len(m)}
MemoGet(m, oid) == (CHOOSE i \in 1..Len(m) : m[i].oid = oid)

\* Mutant: the root gets no name of its own.
MemoNameNoRoot(m, n, basename) == IF basename # "" THEN basename ELSE TypeName(n)

\* memo[_oid] = basename or '$root' on an empty memo, basename or type(obj) otherwise.
MemoName(m, n, basename) ==
    IF Len(m) = 0
    THEN (IF basename # "" THEN basename ELSE "$root")
    ELSE (IF basename # "" THEN basename ELSE TypeName(n))

Verb(n) == IF Heap[n].caps \cap {"Iterable", "Mapping"} # {} THEN "contains" ELSE "is"

CircularMessage(m, n, basename) ==
    "Circular reference detected: " \o (IF basename # "" THEN basename ELSE TypeName(n))
        \o " " \o Verb(n) \o " parent " \o m[MemoGet(m, n)].name

\* Mutant: the entry stays after the call returned (a visited set).
MemoKeptOnReturn(m) == m
\* Mutant: the except clause re-raises without clearing.
MemoKeptOnExcept(m) == m

\* memo.popitem() after f returned.
MemoAfterReturn(m) == SubSeq(m, 1, Len(m) - 1)
\* memo.clear() in the except clause.
MemoAfterExcept(m) == <<>>
\* memo.clear() before the circular-reference error is raised.
MemoAfterCycle(m) == <<>>

\* An exception in flight.  node, basename and anc are history: the value that was
\* re-entered, the basename it was reached with, and the depth and the basename of
\* the active call that already held it (0: no call of this thread).
NoExc == [type |-> "none", msg |-> "", node |-> "none", basename |-> "", anc |-> 0, ancbase |-> ""]
Raise(type, msg) ==
    [type |-> type, msg |-> msg, node |-> "none", basename |-> "", anc |-> 0, ancbase |-> ""]

Frame(n, basename, key) ==
    [node |-> n, basename |-> basename, key |-> key, pc |-> "guard", idx |-> 1,
     acc |-> <<>>, val |-> OutNull]

\* ---------------------------------------------------------------- the call stack

Top(t) == frames[t][Len(frames[t])]
Running(t) == status[t] = "running" /\ Len(frames[t]) > 0
SetTop(t, f) == [frames EXCEPT ![t] = [@ EXCEPT ![Len(@)] = f]]
Push(t, f, child) == [frames EXCEPT ![t] = Append([@ EXCEPT ![Len(@)] = f], child)]

\* The deepest active call of thread t, past its guard, that holds value n (0: none).
Holder(t, n) ==
    LET S == {i \in 1..Len(frames[t]) - 1 : frames[t][i].node = n} IN
    IF S = {} THEN 0 ELSE CHOOSE i \in S : \A j \in S : j <= i

\* The caller of the top call receives its return value.
Deliver(caller, child) ==
    LET b == Classify(caller.node) IN
    CASE b = "_as_dict" -> [caller EXCEPT !.val = child.val, !.pc = "ret"]
      [] b = "iterable" ->
            [caller EXCEPT !.acc = Append(@, [k |-> "", v |-> child.val]),
                           !.idx = @ + 1, !.pc = "loop"]
      [] OTHER ->
            [caller EXCEPT !.acc = DictSet(@, child.key, child.val),
                           !.idx = @ + 1, !.pc = "loop"]

\* The top call ends by raising e: its caller sees e at the call site, or the
\* top-level call fails with it.
Propagate(t, e) ==
    LET rest == SubSeq(frames[t], 1, Len(frames[t]) - 1) IN
    /\ exc' = [exc EXCEPT ![t] = e]
    /\ IF rest = <<>>
       THEN /\ frames' = [frames EXCEPT ![t] = <<>>]
            /\ status' = [status EXCEPT ![t] = "failed"]
       ELSE /\ frames' = [frames EXCEPT ![t] = [rest EXCEPT ![Len(rest)].pc = "raised"]]
            /\ UNCHANGED status

\* A recursive dumps() call from the top call, or RecursionError at the limit.
Call(t, f, child) ==
    IF Len(frames[t]) < MaxDepth
    THEN /\ frames' = Push(t, [f EXCEPT !.pc = "wait"], child)
         /\ UNCHANGED exc
    ELSE /\ frames' = SetTop(t, [f EXCEPT !.pc = "raised"])
         /\ exc' = [exc EXCEPT ![t] = Raise("RecursionError", "maximum recursion depth exceeded")]

\* ---------------------------------------------------------------- jsonify / JSONEntityEncoder.encode

\* encode() calls dumps(obj, basename, ...); the JSON text it then makes of the
\* returned tree is the standard encoder's work and is not part of the state.
Jsonify(t) ==
    /\ status[t] = "idle"
    /\ frames' = [frames EXCEPT ![t] = <<Frame(args[t].root, args[t].basename, "")>>]
    /\ status' = [status EXCEPT ![t] = "running"]
    /\ UNCHANGED <<memo, args, exc, result, fetched, descended, returned, prev>>

\* ---------------------------------------------------------------- _prevent_cycle

\* _oid not in memo: record the value and call f.
GuardEnter(t) ==
    /\ Running(t)
    /\ Top(t).pc = "guard"
    /\ Top(t).node \notin MemoKeys(memo)
    /\ memo' = Append(memo, [oid |-> Top(t).node,
                             name |-> MemoName(memo, Top(t).node, Top(t).basename)])
    /\ frames' = SetTop(t, [Top(t) EXCEPT !.pc = "body"])
    /\ UNCHANGED <<args, exc, status, result, fetched, descended, returned, prev>>

\* _oid in memo: clear the memo and raise the circular-reference ValueError.
GuardCycle(t) ==
    /\ Running(t)
    /\ Top(t).pc = "guard"
    /\ Top(t).node \in MemoKeys(memo)
    /\ memo' = MemoAfterCycle(memo)
    /\ Propagate(t, [type |-> "CircularReference",
                     msg |-> CircularMessage(memo, Top(t).node, Top(t).basename),
                     node |-> Top(t).node, basename |-> Top(t).basename,
                     anc |-> Holder(t, Top(t).node),
                     ancbase |-> IF Holder(t, Top(t).node) = 0 THEN ""
                                 ELSE frames[t][Holder(t, Top(t).node)].basename])
    /\ UNCHANGED <<args, result, fetched, descended, returned, prev>>

\* f returned: memo.popitem(), return retval.
GuardReturn(t) ==
    /\ Running(t)
    /\ Top(t).pc = "ret"
    /\ memo # <<>>
    /\ memo' = MemoAfterReturn(memo)
    /\ returned' = [returned EXCEPT ![t] = @ \cup
                      {[node |-> Top(t).node, basename |-> Top(t).basename, out |-> Top(t).val]}]
    /\ IF Len(frames[t]) = 1
       THEN /\ frames' = [frames EXCEPT ![t] = <<>>]
            /\ status' = [status EXCEPT ![t] = "ok"]
            /\ result' = [result EXCEPT ![t] = Top(t).val]
       ELSE /\ frames' = [frames EXCEPT ![t] =
                            [i \in 1..Len(@) - 1 |->
                               IF i = Len(@) - 1 THEN Deliver(@[i], Top(t)) ELSE @[i]]]
            /\ UNCHANGED <<status, result>>
    /\ UNCHANGED <<args, exc, fetched, descended, prev>>

\* f returned but the memo is empty: popitem() raises KeyError inside the try, the
\* except clause clears the memo and re-raises.
GuardReturnEmpty(t) ==
    /\ Running(t)
    /\ Top(t).pc = "ret"
    /\ memo = <<>>
    /\ memo' = MemoAfterExcept(memo)
    /\ Propagate(t, Raise("KeyError", "dictionary is empty"))
    /\ UNCHANGED <<args, result, fetched, descended, returned, prev>>

\* The except clause of the entity loop: AttributeError from the recursive call.
Catches(f, e) == Classify(f.node) = "object" /\ e.type = "AttributeError"

\* f raised: memo.clear(), re-raise.
GuardExcept(t) ==
    /\ Running(t)
    /\ Top(t).pc = "raised"
    /\ ~Catches(Top(t), exc[t])
    /\ memo' = MemoAfterExcept(memo)
    /\ Propagate(t, exc[t])
    /\ UNCHANGED <<args, result, fetched, descended, returned, prev>>

\* ---------------------------------------------------------------- dumps

Ret(t, out) == SetTop(t, [Top(t) EXCEPT !.val = out, !.pc = "ret"])
Skip(t) == SetTop(t, [Top(t) EXCEPT !.idx = @ + 1])
InBody(t, branch) == Running(t) /\ Top(t).pc = "body" /\ Classify(Top(t).node) = branch
InLoop(t, branch) == Running(t) /\ Top(t).pc = "loop" /\ Classify(Top(t).node) = branch
OutKey(t, name) == IF args[t].camel_case THEN CamelEncode(name) ELSE name

\* None, a primitive, decodable bytes, a _json string or callable, a date: return at once.
DumpsLeaf(t) ==
    LET n == Top(t).node
        b == Classify(n) IN
    /\ Running(t)
    /\ Top(t).pc = "body"
    /\ \/ b = "null" /\ frames' = Ret(t, OutNull)
       \/ b = "primitive" /\ frames' = Ret(t, OutPrim(Heap[n].s))
       \/ b = "bytes" /\ Heap[n].hook = "ok" /\ frames' = Ret(t, OutStr(NativeStr(Heap[n].s)))
       \/ b = "_json" /\ Heap[n].hook \in {"str", "callable"} /\ frames' = Ret(t, OutStr(Heap[n].s))
       \/ b = "date" /\ frames' = Ret(t, OutStr(Heap[n].s))
    /\ UNCHANGED <<memo, args, exc, status, result, fetched, descended, returned, prev>>

\* The branches that raise: undecodable bytes, an invalid _json or _as_dict attribute,
\* a _json callable that raises AttributeError.
DumpsRaise(t) ==
    LET n == Top(t).node
        b == Classify(n)
        Throw(e) == /\ frames' = SetTop(t, [Top(t) EXCEPT !.pc = "raised"])
                    /\ exc' = [exc EXCEPT ![t] = e] IN
    /\ Running(t)
    /\ Top(t).pc = "body"
    /\ \/ b = "bytes" /\ Heap[n].hook = "undecodable"
          /\ Throw(Raise("UnicodeDecodeError", "invalid start byte"))
       \/ b = "_json" /\ Heap[n].hook = "invalid"
          /\ Throw(Raise("ValueError", "Invalid _json attribute found on object"))
       \/ b = "_json" /\ Heap[n].hook = "raises"
          /\ Throw(Raise("AttributeError", "no such attribute"))
       \/ b = "_as_dict" /\ Heap[n].hook = "invalid"
          /\ Throw(Raise("ValueError", "Invalid _as_dict attribute found on object"))
    /\ UNCHANGED <<memo, args, status, result, fetched, descended, returned, prev>>

\* return dumps(dict_attr(), basename, ...)
DumpsAsDict(t) ==
    /\ InBody(t, "_as_dict")
    /\ Heap[Top(t).node].hook = "callable"
    /\ Call(t, Top(t), Frame(Heap[Top(t).node].items[1].to, Top(t).basename, ""))
    /\ UNCHANGED <<memo, args, status, result, fetched, descended, returned, prev>>

\* A mapping, an iterable or a plain object: values starts empty, the loop begins.
DumpsOpen(t) ==
    /\ Running(t)
    /\ Top(t).pc = "body"
    /\ Classify(Top(t).node) \in {"mapping", "iterable", "object"}
    /\ frames' = SetTop(t, [Top(t) EXCEPT !.pc = "loop", !.idx = 1, !.acc = <<>>])
    /\ UNCHANGED <<memo, args, exc, status, result, fetched, descended, returned, prev>>

\* One pass of "for name, value in obj.items()", or "return values" after the last.
MappingStep(t) ==
    LET f == Top(t)
        items == Heap[f.node].items IN
    /\ InLoop(t, "mapping")
    /\ IF f.idx > Len(items)
       THEN /\ frames' = Ret(t, OutDict(f.acc))
            /\ UNCHANGED <<exc, descended>>
       ELSE LET name == NativeStr(items[f.idx].name)
                new_basename == AppendPath(f.basename, name) IN
            IF args[t].ignore_attributes = {} \/ new_basename \notin args[t].ignore_attributes
            THEN /\ Call(t, f, Frame(items[f.idx].to, new_basename, OutKey(t, name)))
                 /\ descended' = [descended EXCEPT ![t] = @ \cup
                                    {[owner |-> f.node, name |-> name, path |-> new_basename]}]
            ELSE /\ frames' = Skip(t)
                 /\ UNCHANGED <<exc, descended>>
    /\ UNCHANGED <<memo, args, status, result, fetched, returned, prev>>

\* One element of "[dumps(val, basename, ...) for val in obj]", or the finished list.
IterableStep(t) ==
    LET f == Top(t)
        items == Heap[f.node].items IN
    /\ InLoop(t, "iterable")
    /\ IF f.idx > Len(items)
       THEN /\ frames' = Ret(t, OutList(f.acc))
            /\ UNCHANGED exc
       ELSE Call(t, f, Frame(items[f.idx].to, f.basename, ""))
    /\ UNCHANGED <<memo, args, status, result, fetched, descended, returned, prev>>

\* The tests of the object loop that come before the attribute is read.
Admitted(t, n, name, new_basename) ==
    /\ ~IsBlacklistedAttribute(new_basename, args[t].ignore_attributes)
    /\ IsVisibleAttribute(name, Transients(n))
    /\ ~(name \in Relationships(n)
         /\ ~CheckWhitelist(new_basename, args[t].include_relationships))

\* One pass of "for name in serializable", or the return after the last.
ObjectStep(t) ==
    LET f == Top(t)
        items == Heap[f.node].items IN
    /\ InLoop(t, "object")
    /\ IF f.idx > Len(items)
       THEN /\ frames' = Ret(t, IF f.acc = <<>> THEN OutStr(Heap[f.node].s) ELSE OutDict(f.acc))
            /\ UNCHANGED <<exc, fetched, descended>>
       ELSE LET item == items[f.idx]
                name == item.name
                new_basename == AppendPath(f.basename, name)
                event == [owner |-> f.node, name |-> name, path |-> new_basename] IN
            IF ~Admitted(t, f.node, name, new_basename)
            THEN /\ frames' = Skip(t)
                 /\ UNCHANGED <<exc, fetched, descended>>
            ELSE /\ fetched' = [fetched EXCEPT ![t] = @ \cup {event}]
                 /\ IF item.get = "raise" \/ ~IsVisibleType(item)
                    THEN /\ frames' = Skip(t)
                         /\ UNCHANGED <<exc, descended>>
                    ELSE /\ Call(t, f, Frame(item.to, new_basename, OutKey(t, name)))
                         /\ descended' = [descended EXCEPT ![t] = @ \cup {event}]
    /\ UNCHANGED <<memo, args, status, result, returned, prev>>

\* except AttributeError: continue
ObjectCatch(t) ==
    /\ Running(t)
    /\ Top(t).pc = "raised"
    /\ Catches(Top(t), exc[t])
    /\ frames' = SetTop(t, [Top(t) EXCEPT !.pc = "loop", !.idx = @ + 1])
    /\ exc' = [exc EXCEPT ![t] = NoExc]
    /\ UNCHANGED <<memo, args, status, result, fetched, descended, returned, prev>>

\* ---------------------------------------------------------------- the callers

Arguments ==
    [root : Roots, basename : Basenames, camel_case : BOOLEAN,
     ignore_attributes : Blacklists, include_relationships : Whitelists]

\* The same value is serialized again, with another blacklist and whitelist.
NextCall(t) ==
    /\ status[t] \in {"ok", "failed"}
    /\ \E B \in Blacklists, W \in Whitelists :
          args' = [args EXCEPT ![t].ignore_attributes = B, ![t].include_relationships = W]
    /\ prev' = [prev EXCEPT ![t] = IF status[t] = "ok" THEN "ok" ELSE exc[t].type]
    /\ status' = [status EXCEPT ![t] = "idle"]
    /\ exc' = [exc EXCEPT ![t] = NoExc]
    /\ result' = [result EXCEPT ![t] = OutNull]
    /\ fetched' = [fetched EXCEPT ![t] = {}]
    /\ descended' = [descended EXCEPT ![t] = {}]
    /\ returned' = [returned EXCEPT ![t] = {}]
    /\ UNCHANGED <<memo, frames>>

Quiet ==
    /\ memo = <<>>
    /\ frames = [t \in Threads |-> <<>>]
    /\ exc = [t \in Threads |-> NoExc]
    /\ status = [t \in Threads |-> "idle"]
    /\ result = [t \in Threads |-> OutNull]
    /\ fetched = [t \in Threads |-> {}]
    /\ descended = [t \in Threads |-> {}]
    /\ returned = [t \in Threads |-> {}]
    /\ prev = [t \in Threads |-> "none"]

DefaultArgs(root) ==
    [root |-> root, basename |-> "", camel_case |-> FALSE,
     ignore_attributes |-> {}, include_relationships |-> NoWhitelist]

\* One thread makes top-level calls one after the other; the second thread never calls.
Init ==
    /\ Quiet
    /\ \E a \in Arguments : args = [t \in Threads |-> IF t = 1 THEN a ELSE DefaultArgs("none")]

Walk(t) ==
    \/ Jsonify(t)
    \/ GuardEnter(t)
    \/ GuardCycle(t)
    \/ GuardReturn(t)
    \/ GuardReturnEmpty(t)
    \/ GuardExcept(t)
    \/ DumpsLeaf(t)
    \/ DumpsRaise(t)
    \/ DumpsAsDict(t)
    \/ DumpsOpen(t)
    \/ MappingStep(t)
    \/ IterableStep(t)
    \/ ObjectStep(t)
    \/ ObjectCatch(t)

Next == Walk(1) \/ NextCall(1)

Spec == Init /\ [][Next]_vars

\* Two threads each make one top-level call with the default arguments, interleaved.
ConcRoots == {"ldag", "mdag", "flaky"}

InitConc ==
    /\ Quiet
    /\ \E r1 \in ConcRoots, r2 \in ConcRoots :
          args = [t \in Threads |-> IF t = 1 THEN DefaultArgs(r1) ELSE DefaultArgs(r2)]

NextConc == \E t \in Threads : Walk(t)

SpecConc == InitConc /\ [][NextConc]_vars

\* ---------------------------------------------------------------- the graph's shape

Succ(n) == {Heap[n].items[i].to : i \in 1..Len(Heap[n].items)}

RECURSIVE ReachWithin(_, _)
ReachWithin(S, k) ==
    IF k = 0 THEN S ELSE ReachWithin(S \cup UNION {Succ(m) : m \in S}, k - 1)

\* The values reachable from n by one reference or more.
Reach == [n \in Nodes |-> ReachWithin(Succ(n), Cardinality(Nodes))]

\* No value reachable from n (n included) is its own ancestor.
Acyclic == [n \in Nodes |-> \A m \in Reach[n] \cup {n} : m \notin Reach[m]]

\* The values whose own conversion raises.
Raisers == {n \in Nodes : Heap[n].hook \in {"undecodable", "invalid", "raises"}}
Sound == [n \in Nodes |-> (Reach[n] \cup {n}) \cap Raisers = {}]

\* The calls of thread t that are past the guard's test, outermost first.
Entered(t) == {i \in 1..Len(frames[t]) : frames[t][i].pc # "guard"}

\* Item j of call f's loop has been decided: skipped, or its recursive call made.
Processed(f, j) == f.pc \in {"loop", "wait", "raised", "ret"} /\
                   (j < f.idx \/ (j = f.idx /\ f.pc \in {"wait", "raised"}))

LoopFrames(t, branches) ==
    {i \in 1..Len(frames[t]) :
        Classify(frames[t][i].node) \in branches /\ frames[t][i].pc \in {"loop", "wait", "raised", "ret"}}

Event(f, j) ==
    [owner |-> f.node, name |-> Heap[f.node].items[j].name,
     path |-> AppendPath(f.basename, Heap[f.node].items[j].name)]

Done(t) == status[t] \in {"ok", "failed"}
DefaultPolicy(t) == args[t].ignore_attributes = {} /\ ~args[t].include_relationships.given

\* ---------------------------------------------------------------- C1

\* C1 (as claimed): the walk never descends into a value that is already being
\* descended into on the active call chain: no two active calls of one top-level
\* call hold the same value.
C1_NoReentry ==
    \A t \in Threads : \A i \in Entered(t), j \in Entered(t) :
        i < j => frames[t][i].node # frames[t][j].node

\* ---------------------------------------------------------------- C2

CopiesAgree(t, samePathOnly) ==
    \A r1 \in returned[t], r2 \in returned[t] :
        (r1.node = r2.node /\ (~samePathOnly \/ r1.basename = r2.basename)) => r1.out = r2.out

\* C2 (amended): on an acyclic graph the circular-reference error is never raised; the
\* top-level call succeeds unless a value's own conversion raises; two copies of a
\* shared value are equal when they were reached under the same path, and always
\* under the default policy.
C2_NoFalseCycle ==
    \A t \in Threads : Acyclic[args[t].root] =>
        /\ exc[t].type # "CircularReference"
        /\ (Sound[args[t].root] /\ Done(t)) => status[t] = "ok"
        /\ CopiesAgree(t, ~DefaultPolicy(t))

\* C2 (as claimed): on an acyclic graph whose values all convert, the call succeeds
\* and every two copies of a shared value are structurally equal.
C2_Original ==
    \A t \in Threads : (Acyclic[args[t].root] /\ Sound[args[t].root]) =>
        /\ exc[t].type # "CircularReference"
        /\ Done(t) => status[t] = "ok"
        /\ CopiesAgree(t, FALSE)

\* A shared mapping was serialized under two sibling paths, giving equal copies.
C2_Witness ==
    /\ Acyclic[args[1].root]
    /\ status[1] = "ok"
    /\ \E r1 \in returned[1], r2 \in returned[1] :
          /\ r1.node = r2.node /\ r1.basename # r2.basename
          /\ r1.out = r2.out /\ r1.out.t = "dict" /\ Len(r1.out.kids) = 2

\* ---------------------------------------------------------------- C3

\* What decides an attribute once the whitelist is left aside.
Eligible(t, f, j) ==
    /\ ~(Event(f, j).path \in args[t].ignore_attributes)
    /\ ~StartsWithUnderscore(Event(f, j).name)
    /\ Event(f, j).name \notin Transients(f.node)
    /\ Heap[f.node].items[j].get = "ok"

RelationItems(f) ==
    {j \in 1..Len(Heap[f.node].items) : Heap[f.node].items[j].name \in Relationships(f.node)}
PlainItems(f) == (1..Len(Heap[f.node].items)) \ RelationItems(f)

\* C3 (amended): with no relation whitelist, a relation is treated like any other
\* attribute: it is descended into unless it is blacklisted, transient, private or
\* unreadable.
C3_RelationsShownByDefault ==
    \A t \in Threads : ~args[t].include_relationships.given =>
        \A i \in LoopFrames(t, {"object"}) : \A j \in RelationItems(frames[t][i]) :
            Processed(frames[t][i], j) =>
                (Event(frames[t][i], j) \in descended[t] <=> Eligible(t, frames[t][i], j))

\* C3 (as claimed): with no relation whitelist, no relation is fetched or descended into.
C3_Original ==
    \A t \in Threads : ~args[t].include_relationships.given =>
        \A e \in fetched[t] \cup descended[t] : e.name \notin Relationships(e.owner)

\* The default call has descended into the relation 'children' of the root.
C3_Witness ==
    /\ ~args[1].include_relationships.given
    /\ args[1].root = "dad" /\ args[1].basename = ""
    /\ [owner |-> "dad", name |-> "children", path |-> "children"] \in descended[1]
    /\ \E i \in Entered(1) : frames[1][i].node = "kids"

\* ---------------------------------------------------------------- C4

\* The keys of call f's values come from recursive calls made for its keys or attributes.
StoredWereDescended(t, f) ==
    \A j \in 1..Len(Heap[f.node].items) :
        (Processed(f, j) /\ OutKey(t, Event(f, j).name) \in Keys(f.acc))
            => Event(f, j) \in descended[t]

\* C4 (amended): with a relation whitelist W, a relation that is not blacklisted,
\* transient, private or unreadable is descended into exactly when its own path is
\* in W (no deeper or shorter path counts), a relation outside W is never descended
\* into or stored, and an attribute that is no relation is decided without W.
C4_WhitelistExactPath ==
    \A t \in Threads : args[t].include_relationships.given =>
        \A i \in LoopFrames(t, {"object"}) :
            LET f == frames[t][i] IN
            /\ \A j \in RelationItems(f) : Processed(f, j) =>
                  (Event(f, j) \in descended[t] <=>
                      (Event(f, j).path \in args[t].include_relationships.paths
                       /\ Eligible(t, f, j)))
            /\ \A j \in PlainItems(f) : Processed(f, j) =>
                  (Event(f, j) \in descended[t] <=> Eligible(t, f, j))
            /\ StoredWereDescended(t, f)

\* C4 (as claimed): with a relation whitelist W, a relation is descended into if and
\* only if its path is in W.
C4_Original ==
    \A t \in Threads : args[t].include_relationships.given =>
        \A i \in LoopFrames(t, {"object"}) : \A j \in RelationItems(frames[t][i]) :
            Processed(frames[t][i], j) =>
                (Event(frames[t][i], j) \in descended[t] <=>
                    Event(frames[t][i], j).path \in args[t].include_relationships.paths)

HasKey(out, k) == out.t = "dict" /\ k \in Keys(out.kids)
ValueAt(out, k) == out.kids[CHOOSE i \in 1..Len(out.kids) : out.kids[i].k = k].v

\* W = {children}: the call succeeded, 'children' is in the output and none of its
\* elements shows 'siblings' or 'parent'.
C4_Witness ==
    /\ args[1].include_relationships = Whitelist({"children"})
    /\ args[1].root = "dad" /\ args[1].basename = "" /\ args[1].ignore_attributes = {}
    /\ status[1] = "ok"
    /\ HasKey(result[1], "children") /\ HasKey(result[1], "name")
    /\ LET kids == ValueAt(result[1], "children").kids IN
       /\ Len(kids) = 3
       /\ \A i \in 1..Len(kids) :
             HasKey(kids[i].v, "name") /\ ~HasKey(kids[i].v, "siblings") /\ ~HasKey(kids[i].v, "parent")

\* ---------------------------------------------------------------- C5

\* C5: a key or attribute whose path is in the blacklist is never fetched, descended
\* into or stored; a mapping key whose path is not in it is always descended into, and
\* so is an attribute that passes the other tests of the object loop.
C5_BlacklistExactPath ==
    \A t \in Threads : \A i \in LoopFrames(t, {"mapping", "object"}) :
        LET f == frames[t][i] IN
        \A j \in 1..Len(Heap[f.node].items) : Processed(f, j) =>
            LET e == Event(f, j) IN
            IF e.path \in args[t].ignore_attributes
            THEN /\ e \notin descended[t]
                 /\ e \notin fetched[t]
                 /\ OutKey(t, e.name) \notin Keys(f.acc)
            ELSE \/ e \in descended[t]
                 \/ /\ Classify(f.node) = "object"
                    /\ \/ ~IsVisibleAttribute(e.name, Transients(f.node))
                       \/ Heap[f.node].items[j].get # "ok"
                       \/ /\ e.name \in Relationships(f.node)
                          /\ args[t].include_relationships.given
                          /\ e.path \notin args[t].include_relationships.paths

\* 'children.parent' is blacklisted (and whitelisted): the call succeeded, 'children'
\* is present and every element kept its 'name' and lost its 'parent'.
C5_Witness ==
    /\ args[1].ignore_attributes = {"children.parent"}
    /\ args[1].include_relationships = Whitelist({"children", "children.parent"})
    /\ args[1].root = "dad" /\ args[1].basename = ""
    /\ status[1] = "ok"
    /\ HasKey(result[1], "children")
    /\ LET kids == ValueAt(result[1], "children").kids IN
       /\ Len(kids) = 3
       /\ \A i \in 1..Len(kids) : HasKey(kids[i].v, "name") /\ ~HasKey(kids[i].v, "parent")

\* ---------------------------------------------------------------- C6

\* C6: an attribute the object declares transient is never fetched, never descended
\* into and never stored, whatever the blacklist and the whitelist are.
C6_TransientsHidden ==
    \A t \in Threads :
        /\ \A e \in fetched[t] \cup descended[t] :
              Classify(e.owner) = "object" => e.name \notin GetTransients(e.owner)
        /\ \A i \in LoopFrames(t, {"object"}) : \A name \in GetTransients(frames[t][i].node) :
              OutKey(t, name) \notin Keys(frames[t][i].acc)

\* The whitelist names the path of a relation that is declared transient: the cycle
\* through it is not reported and the output holds the other attribute alone.
C6_Witness ==
    /\ args[1].root = "trudy" /\ args[1].basename = ""
    /\ args[1].include_relationships = Whitelist({"parent"})
    /\ "parent" \in Relationships("trudy") \cap GetTransients("trudy")
    /\ ~Acyclic["trudy"]
    /\ status[1] = "ok"
    /\ Keys(result[1].kids) = {"name"}

\* ---------------------------------------------------------------- C7

IsComposite(n) == Classify(n) \in {"mapping", "iterable"} \/ "Iterable" \in Heap[n].caps

Message(p, n, ancestor) ==
    "Circular reference detected: " \o p \o " "
        \o (IF IsComposite(n) THEN "contains" ELSE "is") \o " parent " \o ancestor

\* The display name of the ancestor: its basename, '$root' for the root entered with
\* an empty basename, its type for another value entered with an empty basename.
AncestorName(e) ==
    IF e.ancbase # "" THEN e.ancbase ELSE IF e.anc = 1 THEN "$root" ELSE TypeName(e.node)

\* C7 (amended): the message is 'Circular reference detected: P V parent N' where P is
\* the path at which the value was re-entered, or the value's type when that path is
\* empty; V and N are as claimed.
C7_Message ==
    \A t \in Threads : exc[t].type = "CircularReference" =>
        /\ exc[t].anc > 0
        /\ exc[t].msg = Message(IF exc[t].basename # "" THEN exc[t].basename
                                ELSE TypeName(exc[t].node),
                                exc[t].node, AncestorName(exc[t]))

\* C7 (as claimed): P is the structural path at which the value was re-entered.
C7_Original ==
    \A t \in Threads : exc[t].type = "CircularReference" =>
        exc[t].msg = Message(exc[t].basename, exc[t].node, AncestorName(exc[t]))

\* The root list, entered with an empty basename, contains itself.
C7_Witness ==
    /\ exc[1].type = "CircularReference"
    /\ exc[1].basename = "" /\ exc[1].anc = 1
    /\ exc[1].msg = "Circular reference detected: <class 'list'> contains parent $root"

\* ---------------------------------------------------------------- C8

\* C8: whenever no top-level call is in progress (before a call, and after it returned
\* or raised) the memo is empty.
C8_MemoEmptyBetweenCalls ==
    (\A t \in Threads : status[t] # "running") => memo = <<>>

\* The call after a circular-reference failure, on the same root with a policy that
\* filters the cycle out, succeeded.
C8_Witness ==
    /\ prev[1] = "CircularReference"
    /\ status[1] = "ok"
    /\ ~Acyclic[args[1].root]
    /\ memo = <<>>

\* ---------------------------------------------------------------- C9

\* C9 (as claimed): while a walk goes on with no exception in flight, the memo holds
\* exactly the values of the active calls, in call order.
C9_MemoMirrorsCalls ==
    \A t \in Threads : (status[t] = "running" /\ exc[t].type = "none") =>
        /\ Len(memo) = Cardinality(Entered(t))
        /\ \A i \in Entered(t) : i <= Len(memo) /\ memo[i].oid = frames[t][i].node

\* ---------------------------------------------------------------- C10

\* C10 (as claimed): a call on an acyclic value never raises the circular-reference
\* error, also when another call's execution is interleaved with it.
C10_NoFalseCycleInterleaved ==
    \A t \in Threads : Acyclic[args[t].root] => exc[t].type # "CircularReference"

====
